---- MODULE Spec2Model ----
(***************************************************************************)
(* torch/utils/show_pickle.py: a pickle dumper that interprets a pickle    *)
(* stream with placeholder classes (FakeClass / FakeObject) and pretty     *)
(* prints the resulting value.                                             *)
(*                                                                         *)
(* Text is modelled as sequences: a name is a sequence of one-character    *)
(* strings, a byte string a sequence of 0..255, a str a sequence of code   *)
(* points.  The pickle stream is not stored: each opcode handler is an     *)
(* action and the next opcode (with its operands) is the action's input.   *)
(* Opcodes that need dict, list, set, memo or MARK are not modelled.       *)
(***************************************************************************)
EXTENDS Integers, Sequences, FiniteSets, TLC

VARIABLES
    entry,      \* how the program was entered: "cli" | "prog" | "load" | "ctor"
    argv,       \* main's argv: a sequence of names
    sink,       \* main's output_stream is not None
    hook,       \* pprint.PrettyPrinter._dispatch holds FakeObject.pp_format
    catch,      \* DumpUnpickler.catch_invalid_utf8
    maxsize,    \* sys.maxsize in bits, 31 or 63, once a length that only one
                \* of them admits was compared with it; 0 before
    pc,         \* "start" | "load" | "loaded" | "ctor" | "exit"
    stack,      \* the unpickler's operand stack
    objs,       \* every FakeObject created, by identity
    nset,       \* per FakeObject: how many times __setstate__ ran
    lastop,     \* the opcode dispatched last
    operand,    \* BINUNICODE: the bytes str_bytes it read; else empty
    nops,       \* number of opcodes dispatched
    result,     \* the value load() returned, as <<v>>; <<>> before
    imported,   \* (module, name) pairs a real import was done for
    invoked,    \* real callables that were called
    members,    \* ZipFile.infolist() of the opened archive, stored order
    handles,    \* handles currently open, outermost first
    opened,     \* every handle opened, in order
    closed,     \* every handle released, in order
    width,      \* pprint: number of nesting levels whose repr exceeds the line
    out,        \* text written to the output stream
    err,        \* text written to sys.stderr
    ret,        \* main's return value, -1 while there is none
    exn,        \* message of the exception that propagated, "" if none
    callargs    \* "ctor" entry: the class and the arguments of a direct call

vars == <<entry, argv, sink, hook, catch, maxsize, pc, stack, objs, nset,
          lastop, operand, nops, result, imported, invoked, members, handles, opened,
          closed, width, out, err, ret, exn, callargs>>

----------------------------------------------------------------------------
(* Bounds of the model *)

MaxOps == 7
MaxStack == 2
MaxObjs == 2
MaxDepth == 1
MaxWide == 2
MaxArgs == 2

----------------------------------------------------------------------------
(* Values on the operand stack *)

Val(t, m, n, r, cp, xs) ==
    [t |-> t, m |-> m, n |-> n, r |-> r, cp |-> cp, xs |-> xs]

NoneV == Val("none", "", "", 0, <<>>, <<>>)
StrV(cps) == Val("str", "", "", 0, cps, <<>>)
TupleV(xs) == Val("tuple", "", "", 0, <<>>, xs)
ObjV(r) == Val("obj", "", "", r, <<>>, <<>>)
RealClass(module, name) == Val("real", module, name, 0, <<>>, <<>>)

\* class FakeClass: __init__(module, name)
FakeClass(module, name) == Val("class", module, name, 0, <<>>, <<>>)

\* class FakeObject: __init__(module, name, args); state starts as None
FakeObject(module, name, args) ==
    [module |-> module, name |-> name, args |-> args, state |-> NoneV]

Tail1(s) == IF Len(s) = 0 THEN <<>> ELSE Tail(s)

\* FakeClass.__call__
FakeClass_call(c, args) == FakeObject(c.m, c.n, args)

fake_new_keep(c, args) == FakeObject(c.m, c.n, args)

\* FakeClass.fake_new: args[1:]
fake_new(c, args) == FakeObject(c.m, c.n, Tail1(args))

setstate_once(o, state) == IF o.state = NoneV THEN [o EXCEPT !.state = state] ELSE o

\* FakeObject.__setstate__(state)
setstate(o, state) == [o EXCEPT !.state = state]

find_class_import(module, name) == RealClass(module, name)

\* DumpUnpickler.find_class(module, name)
find_class(module, name) == FakeClass(module, name)

----------------------------------------------------------------------------
(* str(str_bytes, "utf-8", "surrogatepass") *)

IsCont(bs, i) == i <= Len(bs) /\ bs[i] >= 128 /\ bs[i] <= 191

\* number of bytes the sequence starting with lead byte b has, 0 if b starts none
SeqLen(b) ==
    IF b < 128 THEN 1
    ELSE IF b >= 194 /\ b <= 223 THEN 2
    ELSE IF b >= 224 /\ b <= 239 THEN 3
    ELSE IF b >= 240 /\ b <= 244 THEN 4
    ELSE 0

\* reasons of a UnicodeDecodeError
InvalidStart == 1
InvalidContinuation == 2
UnexpectedEnd == 3

DecodeError(bs, i, last, reason) ==
    [ok |-> FALSE, cps |-> <<bs[i], i - 1, last - 1, reason>>]

\* the code point of the sequence of n bytes at i, all continuation bytes valid
CodePoint(bs, i, n) ==
    IF n = 1 THEN bs[i]
    ELSE IF n = 2 THEN (bs[i] - 192) * 64 + (bs[i + 1] - 128)
    ELSE IF n = 3 THEN
        (bs[i] - 224) * 4096 + (bs[i + 1] - 128) * 64 + (bs[i + 2] - 128)
    ELSE (bs[i] - 240) * 262144 + (bs[i + 1] - 128) * 4096
             + (bs[i + 2] - 128) * 64 + (bs[i + 3] - 128)

\* the smallest code point a sequence of n bytes may encode (no overlong forms)
MinCodePoint(n) ==
    IF n = 1 THEN 0 ELSE IF n = 2 THEN 128 ELSE IF n = 3 THEN 2048 ELSE 65536

IsSurrogate(cp) == cp >= 55296 /\ cp <= 57343

\* the index of the first byte among bs[i+1 .. i+n-1] that is missing or is
\* no continuation byte, 0 if there is none
RECURSIVE FirstBad(_, _, _, _)
FirstBad(bs, i, k, n) ==
    IF k >= n THEN 0
    ELSE IF IsCont(bs, i + k) THEN FirstBad(bs, i, k + 1, n)
    ELSE i + k

RECURSIVE Utf8Decode(_, _, _, _)
Utf8Decode(bs, i, acc, surrogates) ==
    IF i > Len(bs) THEN [ok |-> TRUE, cps |-> acc]
    ELSE LET n == SeqLen(bs[i])
             bad == FirstBad(bs, i, 1, n)
         IN  IF n = 0 THEN DecodeError(bs, i, i, InvalidStart)
             ELSE IF bad > Len(bs) THEN DecodeError(bs, i, Len(bs), UnexpectedEnd)
             ELSE IF bad # 0 THEN DecodeError(bs, i, bad - 1, InvalidContinuation)
             ELSE LET cp == CodePoint(bs, i, n)
                  IN  IF cp < MinCodePoint(n) \/ cp > 1114111
                             \/ (IsSurrogate(cp) /\ ~surrogates)
                      THEN DecodeError(bs, i, i, InvalidContinuation)
                      ELSE Utf8Decode(bs, i + n, Append(acc, cp), surrogates)

decode_ignore(bs) ==
    LET d == Utf8Decode(bs, 1, <<>>, TRUE)
    IN  IF d.ok THEN d ELSE [ok |-> TRUE, cps |-> <<>>]

\* str(str_bytes, "utf-8", "surrogatepass")
decode(bs) == Utf8Decode(bs, 1, <<>>, TRUE)

\* sys.maxsize is 2^31 - 1 or 2^63 - 1
Platforms == {31, 63}

\* struct.unpack("<I", ...) > sys.maxsize, on the four little-endian bytes
TooLong(lenword, bits) == bits = 31 /\ lenword[4] >= 128

Min(a, b) == IF a < b THEN a ELSE b

\* self.read(strlen): at most strlen bytes of what the file still holds
read(lenword, avail) ==
    IF lenword[2] = 0 /\ lenword[3] = 0 /\ lenword[4] = 0
    THEN SubSeq(avail, 1, Min(lenword[1], Len(avail)))
    ELSE avail

----------------------------------------------------------------------------
(* Helpers of the interpreter *)

Top == stack[Len(stack)]
Below == stack[Len(stack) - 1]
Pop1 == SubSeq(stack, 1, Len(stack) - 1)
Pop2 == SubSeq(stack, 1, Len(stack) - 2)

RECURSIVE Depth(_)
Depth(v) ==
    IF v.t # "tuple" \/ v.xs = <<>> THEN 0
    ELSE 1 + Depth(v.xs[CHOOSE i \in DOMAIN v.xs :
                        \A j \in DOMAIN v.xs : Depth(v.xs[j]) <= Depth(v.xs[i])])

\* bool(v) of a value
Truthy(v) ==
    IF v.t = "none" THEN FALSE
    ELSE IF v.t = "str" THEN v.cp # <<>>
    ELSE IF v.t = "tuple" THEN v.xs # <<>>
    ELSE TRUE

\* func(star args): args can be unpacked
Iterable(v) == v.t \in {"tuple", "str"}

\* func(star args): the positional arguments args unpacks to
Unpack(v) ==
    IF v.t = "tuple" THEN v.xs ELSE [i \in DOMAIN v.cp |-> StrV(<<v.cp[i]>>)]

Unwind_leak_archive(hs) == IF hs = <<>> THEN <<>> ELSE <<hs[Len(hs)]>>

\* leaving the with blocks of main: the handles released, in release order
Unwind(hs) == [i \in DOMAIN hs |-> hs[Len(hs) + 1 - i]]

InSeq(x, s) == \E i \in DOMAIN s : s[i] = x

StillOpen(hs, released) == SelectSeq(hs, LAMBDA h : ~InSeq(h, released))

envVars == <<entry, argv, sink, hook, catch, members, opened, callargs>>
ioVars == <<width, out, err>>

Propagate_swallow(msg) ==
    /\ pc' = "exit"
    /\ exn' = ""
    /\ ret' = 0
    /\ closed' = closed \o Unwind(handles)
    /\ handles' = StillOpen(handles, Unwind(handles))
    /\ UNCHANGED result

\* an exception propagates out of load(), dump() and main()
Propagate(msg) ==
    /\ pc' = "exit"
    /\ exn' = msg
    /\ closed' = closed \o Unwind(handles)
    /\ handles' = StillOpen(handles, Unwind(handles))
    /\ UNCHANGED <<ret, result>>

\* the handler of opcode op returns and the load loop reads the next opcode
Continue(op, stk, os, ns) ==
    /\ lastop' = op
    /\ operand' = <<>>
    /\ nops' = nops + 1
    /\ stack' = stk
    /\ objs' = os
    /\ nset' = ns
    /\ UNCHANGED <<pc, exn, closed, handles, ret, result>>
    /\ UNCHANGED <<maxsize, envVars, ioVars>>

\* the handler of opcode op raises, having left stk of the stack
Raise(op, msg, stk) ==
    /\ lastop' = op
    /\ operand' = <<>>
    /\ nops' = nops + 1
    /\ Propagate(msg)
    /\ stack' = stk
    /\ UNCHANGED <<objs, nset, imported, invoked>>
    /\ UNCHANGED <<envVars, ioVars>>

Abort(op, msg, stk) == Raise(op, msg, stk) /\ UNCHANGED maxsize

Dispatch == pc = "load" /\ nops < MaxOps
CanPush(k) == Len(stack) + k <= MaxStack
CanAlloc == Len(objs) < MaxObjs

\* a new FakeObject o: the heap and the counters with it, and its reference
Alloc(o) == Append(objs, o)
AllocN == Append(nset, 0)
NewRef == ObjV(Len(objs) + 1)

Modules == {"m"}
Names == {"C"}
\* what a BINUNICODE opcode may be followed by: the four bytes of the length,
\* and the bytes the file holds after them
LenWords == {<<3, 0, 0, 0>>, <<2, 0, 0, 0>>, <<255, 255, 255, 255>>}
ByteStrings == {<<237, 160, 128>>, <<255>>}

----------------------------------------------------------------------------
(* pickle._Unpickler opcode handlers, with DumpUnpickler's overrides *)

\* NONE
load_none ==
    /\ Dispatch /\ CanPush(1)
    /\ Continue("NONE", Append(stack, NoneV), objs, nset)
    /\ UNCHANGED <<imported, invoked>>

\* load_binunicode after str_bytes was read: the decoding and the append
Decoded(str_bytes) ==
    LET d == decode(str_bytes)
    IN  /\ lastop' = "BINUNICODE"
        /\ operand' = str_bytes
        /\ nops' = nops + 1
        /\ UNCHANGED <<imported, invoked, envVars, ioVars>>
        /\ IF d.ok
           THEN /\ stack' = Append(stack, StrV(d.cps))
                /\ UNCHANGED <<objs, nset, pc, exn, closed, handles, ret, result>>
           ELSE IF ~catch
           THEN /\ Propagate("UnicodeDecodeError")
                /\ UNCHANGED <<stack, objs, nset>>
           ELSE /\ CanAlloc
                /\ stack' = Append(stack, NewRef)
                /\ objs' = Alloc(FakeObject("builtin", "UnicodeDecodeError",
                                            <<StrV(d.cps)>>))
                /\ nset' = AllocN
                /\ UNCHANGED <<pc, exn, closed, handles, ret, result>>

\* BINUNICODE: DumpUnpickler.load_binunicode
load_binunicode ==
    /\ Dispatch /\ CanPush(1)
    /\ \E lenword \in LenWords, avail \in ByteStrings :
       \E bits \in IF maxsize = 0 THEN Platforms ELSE {maxsize} :
         /\ maxsize' = IF \A b \in Platforms : TooLong(lenword, b) = TooLong(lenword, bits)
                        THEN maxsize ELSE bits
         /\ IF TooLong(lenword, bits)
            THEN Raise("BINUNICODE", "String too long.", stack)
            ELSE Decoded(read(lenword, avail))

\* EMPTY_TUPLE
load_empty_tuple ==
    /\ Dispatch /\ CanPush(1)
    /\ Continue("EMPTY_TUPLE", Append(stack, TupleV(<<>>)), objs, nset)
    /\ UNCHANGED <<imported, invoked>>

\* TUPLE1
load_tuple1 ==
    /\ Dispatch
    /\ IF Len(stack) < 1 THEN Abort("TUPLE1", "IndexError", stack)
       ELSE /\ Depth(Top) < MaxDepth
            /\ Continue("TUPLE1", Append(Pop1, TupleV(<<Top>>)), objs, nset)
            /\ UNCHANGED <<imported, invoked>>

\* GLOBAL: load_global calls self.find_class(module, name)
load_global ==
    /\ Dispatch /\ CanPush(1)
    /\ \E module \in Modules, name \in Names :
         LET klass == find_class(module, name)
         IN  /\ Continue("GLOBAL", Append(stack, klass), objs, nset)
             /\ imported' = IF klass.t = "real"
                            THEN imported \cup {<<module, name>>} ELSE imported
             /\ UNCHANGED invoked

\* REDUCE: args = stack.pop(); func = stack[-1]; stack[-1] = func(star args)
load_reduce ==
    /\ Dispatch
    /\ IF Len(stack) < 2 THEN Abort("REDUCE", "IndexError", <<>>)
       ELSE IF ~Iterable(Top) \/ Below.t \notin {"class", "real"}
       THEN Abort("REDUCE", "TypeError", Pop1)
       ELSE /\ CanAlloc
            /\ Continue("REDUCE", Append(Pop2, NewRef),
                        Alloc(FakeClass_call(Below, Unpack(Top))), AllocN)
            /\ invoked' = IF Below.t = "real"
                          THEN invoked \cup {<<Below.m, Below.n>>} ELSE invoked
            /\ UNCHANGED imported

\* NEWOBJ: args = stack.pop(); cls = stack.pop(); cls.__new__(cls, star args)
load_newobj ==
    /\ Dispatch
    /\ IF Len(stack) < 2 THEN Abort("NEWOBJ", "IndexError", <<>>)
       ELSE IF ~Iterable(Top) \/ Below.t \notin {"class", "real"}
       THEN Abort("NEWOBJ", "TypeError", Pop2)
       ELSE /\ CanAlloc
            /\ Continue("NEWOBJ", Append(Pop2, NewRef),
                        Alloc(fake_new(Below, <<Below>> \o Unpack(Top))), AllocN)
            /\ invoked' = IF Below.t = "real"
                          THEN invoked \cup {<<Below.m, Below.n>>} ELSE invoked
            /\ UNCHANGED imported

\* BUILD: state = stack.pop(); inst = stack[-1]; inst.__setstate__(state) when
\* inst has one, else the state goes to inst.__dict__ and to setattr
load_build ==
    /\ Dispatch
    /\ IF Len(stack) < 2 THEN Abort("BUILD", "IndexError", <<>>)
       ELSE IF Below.t = "obj"
       THEN /\ Continue("BUILD", Pop1,
                        [objs EXCEPT ![Below.r] = setstate(@, Top)],
                        [nset EXCEPT ![Below.r] = @ + 1])
            /\ UNCHANGED <<imported, invoked>>
       ELSE LET pair == Top.t = "tuple" /\ Len(Top.xs) = 2
                state == IF pair THEN Top.xs[1] ELSE Top
                slotstate == IF pair THEN Top.xs[2] ELSE NoneV
            IN  IF Truthy(state) \/ Truthy(slotstate)
                THEN Abort("BUILD", "AttributeError", Pop1)
                ELSE /\ Continue("BUILD", Pop1, objs, nset)
                     /\ UNCHANGED <<imported, invoked>>

\* STOP: value = self.stack.pop(); load() returns it
load_stop ==
    /\ Dispatch
    /\ IF Len(stack) < 1 THEN Abort("STOP", "IndexError", stack)
       ELSE /\ lastop' = "STOP"
            /\ operand' = <<>>
            /\ nops' = nops + 1
            /\ stack' = Pop1
            /\ result' = <<Top>>
            /\ pc' = IF entry = "load" THEN "exit" ELSE "loaded"
            /\ UNCHANGED <<objs, nset, imported, invoked, exn, closed, handles, ret>>
            /\ UNCHANGED <<maxsize, envVars, ioVars>>

\* read(1) returns nothing (EOFError), or a byte dispatch has no handler for
load_bad ==
    /\ Dispatch
    /\ \E e \in {"EOFError", "KeyError"} : Abort("?", e, stack)

----------------------------------------------------------------------------
(* repr() and pprint.pprint of a value *)

RECURSIVE Join(_)
Join(texts) == IF texts = <<>> THEN <<>> ELSE Head(texts) \o Join(Tail(texts))

\* what follows item i of a tuple of n items: (x,) and (x, y)
Sep(i, n) == IF i < n THEN <<", ">> ELSE IF n = 1 THEN <<",">> ELSE <<>>

RECURSIVE Repr(_)
\* repr(v); FakeClass.__repr__ and FakeObject.__repr__ for the placeholders
Repr(v) ==
    IF v.t = "none" THEN <<"None">>
    ELSE IF v.t = "str" THEN
        <<"'">> \o [i \in DOMAIN v.cp |-> ToString(v.cp[i])] \o <<"'">>
    ELSE IF v.t = "tuple" THEN
        <<"(">> \o Join([i \in DOMAIN v.xs |->
                             Repr(v.xs[i]) \o Sep(i, Len(v.xs))]) \o <<")">>
    ELSE IF v.t \in {"class", "real"} THEN <<v.m, ".", v.n>>
    ELSE LET o == objs[v.r]
             state_str == IF o.state = NoneV THEN <<>>
                          ELSE <<"(state=">> \o Repr(o.state) \o <<")">>
         IN  <<o.module, ".", o.name>> \o Repr(TupleV(o.args)) \o state_str

Written(text) == [ok |-> TRUE, text |-> text]
Raised(text) == [ok |-> FALSE, text |-> text]

\* what is written when a first piece before and a last piece after surround
\* an inner rendering that may raise
Around(before, inner, after) ==
    IF inner.ok THEN Written(before \o inner.text \o after)
    ELSE Raised(before \o inner.text)

pp_format_combined(o, inner_args, inner_state) ==
    IF o.args = <<>> /\ o.state = NoneV THEN
        Written(<<o.module, ".", o.name, "(", ")">>)
    ELSE IF o.state = NoneV THEN
        Around(<<o.module, ".", o.name>>, inner_args, <<>>)
    ELSE IF o.args = <<>> THEN
        Around(<<o.module, ".", o.name, "(", ")", "(state=", "\n", " ">>,
               inner_state, <<")">>)
    ELSE Around(<<o.module, ".", o.name>> \o inner_args.text \o <<"(state=">>,
                inner_state, <<")">>)

\* FakeObject.pp_format; inner_args and inner_state are what printer._format
\* writes for obj.args and for obj.state
pp_format(o, inner_args, inner_state) ==
    IF o.args = <<>> /\ o.state = NoneV THEN
        Written(<<o.module, ".", o.name, "(", ")">>)
    ELSE IF o.state = NoneV THEN
        Around(<<o.module, ".", o.name>>, inner_args, <<>>)
    ELSE IF o.args = <<>> THEN
        Around(<<o.module, ".", o.name, "(", ")", "(state=", "\n", " ">>,
               inner_state, <<")">>)
    ELSE Raised(<<>>)

RECURSIVE Format(_, _, _, _)
RECURSIVE FormatItems(_, _, _, _, _)

\* PrettyPrinter._format_items: the items of a tuple from item i on, one a line
FormatItems(xs, i, level, w, hooked) ==
    IF i > Len(xs) THEN Written(<<>>)
    ELSE LET item == Format(xs[i], level, w, hooked)
             sep == IF i < Len(xs) THEN <<",", "\n">> ELSE Sep(i, Len(xs))
         IN  IF ~item.ok THEN item
             ELSE Around(item.text \o sep,
                         FormatItems(xs, i + 1, level, w, hooked), <<>>)

\* PrettyPrinter._format(v): the repr when it fits the line (level >= w), else
\* the entry of _dispatch for type(v).__repr__ when there is one
Format(v, level, w, hooked) ==
    IF level >= w THEN Written(Repr(v))
    ELSE IF v.t = "obj" /\ hooked THEN
        pp_format(objs[v.r],
                  Format(TupleV(objs[v.r].args), level + 1, w, hooked),
                  Format(objs[v.r].state, level + 1, w, hooked))
    ELSE IF v.t = "tuple" THEN
        Around(<<"(">>, FormatItems(v.xs, 1, level + 1, w, hooked), <<")">>)
    ELSE Written(Repr(v))

\* DumpUnpickler.dump after load(): pprint.pprint(value, stream=out_stream)
dump_pprint ==
    /\ pc = "loaded"
    /\ \E w \in 0 .. MaxWide :
         LET f == Format(result[1], 0, w, hook)
         IN  /\ width' = w
             /\ pc' = "exit"
             /\ closed' = closed \o Unwind(handles)
             /\ handles' = StillOpen(handles, Unwind(handles))
             /\ IF f.ok
                THEN out' = out \o f.text \o <<"\n">> /\ ret' = 0 /\ exn' = exn
                ELSE out' = out \o f.text /\ ret' = ret /\ exn' = "Need to implement"
    /\ UNCHANGED <<maxsize, envVars, err, stack, objs, nset, lastop, operand, nops, result,
                   imported, invoked>>

----------------------------------------------------------------------------
(* main *)

Contains(name, c) == \E i \in DOMAIN name : name[i] = c

\* the index of the first c in name, 0 if there is none
IndexOf(name, c) ==
    IF Contains(name, c)
    THEN CHOOSE i \in DOMAIN name :
             name[i] = c /\ \A j \in 1 .. i - 1 : name[j] # c
    ELSE 0

\* fname.split("@", 1)
Split(fname) ==
    LET i == IndexOf(fname, "@")
    IN  <<SubSeq(fname, 1, i - 1), SubSeq(fname, i + 1, Len(fname))>>

RECURSIVE fnmatch(_, _)
\* fnmatch.fnmatch(filename, pattern) with the wildcards * and ?
fnmatch(name, pat) ==
    IF pat = <<>> THEN name = <<>>
    ELSE IF Head(pat) = "*" THEN
        \/ fnmatch(name, Tail(pat))
        \/ name # <<>> /\ fnmatch(Tail(name), pat)
    ELSE IF name = <<>> THEN FALSE
    ELSE /\ Head(pat) = "?" \/ Head(pat) = Head(name)
         /\ fnmatch(Tail(name), Tail(pat))

\* "*" not in mname, negated
IsGlob(mname) == Contains(mname, "*")

Matching(infolist, mname) == {i \in DOMAIN infolist : fnmatch(infolist[i], mname)}

FirstMatch_last(infolist, mname) ==
    LET M == Matching(infolist, mname)
    IN  IF M = {} THEN 0 ELSE CHOOSE i \in M : \A j \in M : j <= i

\* for info in zf.infolist(): if fnmatch(...): ...; break
\* the index of the member the loop stops at, 0 if it runs to the end
FirstMatch(infolist, mname) ==
    LET M == Matching(infolist, mname)
    IN  IF M = {} THEN 0 ELSE CHOOSE i \in M : \A j \in M : i <= j

\* zf.open(mname): ZipFile.getinfo(name), the entry the name maps to, 0 if none
GetInfo(infolist, mname) ==
    LET M == {i \in DOMAIN infolist : infolist[i] = mname}
    IN  IF M = {} THEN 0 ELSE CHOOSE i \in M : \A j \in M : j <= i

Handle(kind, name, idx) == [kind |-> kind, name |-> name, idx |-> idx]

\* the file system
Files == {<<"f">>}
Archives == {<<"z">>}
MemberNames == {<<"a">>, <<"b", "a">>}
MemberLists ==
    {<<>>} \cup {<<x>> : x \in MemberNames}
        \cup {q \in {<<x, y>> : x \in MemberNames, y \in MemberNames} : q[1] # q[2]}

Locators ==
    { <<"f">>, <<"g">>, <<"z", "@", "a">>, <<"z", "@", "b">>, <<"z", "@", "*">>,
      <<"z", "@", "?">>, <<"z", "@", "b", "*">>, <<"g", "@", "a">>,
      <<"f", "@", "a">> }
Argvs ==
    {<<<<"show_pickle">>>>} \cup {<<<<"show_pickle">>, l>> : l \in Locators}
        \cup {<<<<"show_pickle">>, <<"f">>, <<"f">>>>}

Usage ==
    << "usage: show_pickle PICKLE_FILE", "  PICKLE_FILE can be any of:",
       "    path to a pickle file", "    file.zip@member.pkl",
       "    file.zip@*/pattern.*", "      (shell glob pattern for members)",
       "      (only first match will be shown)" >>

mainVars == <<maxsize, stack, objs, nset, lastop, operand, nops, result, imported, invoked,
              width, out>>
fixedVars == <<entry, argv, sink, hook, catch, callargs>>

\* main raises before DumpUnpickler.dump is reached; hs are the handles open then
Fail(msg, hs, infolist) ==
    /\ pc' = "exit" /\ exn' = msg /\ ret' = ret
    /\ members' = infolist
    /\ opened' = opened \o hs
    /\ closed' = closed \o Unwind(hs)
    /\ handles' = StillOpen(hs, Unwind(hs))
    /\ err' = err

\* main reaches DumpUnpickler.dump(handle, output_stream) with hs open
Enter(hs, infolist) ==
    /\ pc' = "load" /\ exn' = exn /\ ret' = ret
    /\ members' = infolist
    /\ opened' = opened \o hs
    /\ closed' = closed
    /\ handles' = hs
    /\ err' = err

usage_always ==
    /\ pc = "start" /\ Len(argv) # 2
    /\ err' = err \o Usage /\ ret' = 2 /\ pc' = "exit"
    /\ UNCHANGED <<exn, members, opened, closed, handles>>
    /\ UNCHANGED <<mainVars, fixedVars>>

\* main, len(argv) != 2
main_usage ==
    /\ pc = "start" /\ Len(argv) # 2
    /\ IF sink
       THEN /\ exn' = "Pass argv of length 2." /\ pc' = "exit"
            /\ UNCHANGED <<err, ret>>
       ELSE /\ err' = err \o Usage /\ ret' = 2 /\ pc' = "exit"
            /\ UNCHANGED exn
    /\ UNCHANGED <<members, opened, closed, handles>>
    /\ UNCHANGED <<mainVars, fixedVars>>

\* main, fname without "@": with open(fname, "rb") as handle
main_open_file ==
    /\ pc = "start" /\ Len(argv) = 2 /\ ~Contains(argv[2], "@")
    /\ IF argv[2] \in Files \cup Archives
       THEN Enter(<<Handle("file", argv[2], 0)>>, <<>>)
       ELSE Fail("FileNotFoundError", <<>>, <<>>)
    /\ UNCHANGED <<mainVars, fixedVars>>

\* main, fname with "@": with zipfile.ZipFile(zfname) as zf, then the member
main_open_archive ==
    /\ pc = "start" /\ Len(argv) = 2 /\ Contains(argv[2], "@")
    /\ LET zfname == Split(argv[2])[1]
           mname == Split(argv[2])[2]
           zf == Handle("zip", zfname, 0)
       IN  IF zfname \notin Files \cup Archives
           THEN Fail("FileNotFoundError", <<>>, <<>>)
           ELSE IF zfname \notin Archives THEN Fail("BadZipFile", <<>>, <<>>)
           ELSE \E infolist \in MemberLists :
                  IF ~IsGlob(mname)
                  THEN LET i == GetInfo(infolist, mname)
                       IN  IF i = 0 THEN Fail("KeyError", <<zf>>, infolist)
                           ELSE Enter(<<zf, Handle("member", mname, i)>>, infolist)
                  ELSE LET i == FirstMatch(infolist, mname)
                       IN  IF i = 0
                           THEN Fail("Could not find member matching", <<zf>>,
                                     infolist)
                           ELSE Enter(<<zf, Handle("member", infolist[i], i)>>,
                                      infolist)
    /\ UNCHANGED <<mainVars, fixedVars>>

Main == main_usage \/ main_open_file \/ main_open_archive \/ dump_pprint

InitMain ==
    /\ entry \in {"cli", "prog"}
    /\ argv \in Argvs
    /\ sink = (entry = "prog")
    /\ hook = (entry = "cli")
    /\ catch = FALSE
    /\ maxsize = 0
    /\ pc = "start"
    /\ stack = <<>> /\ objs = <<>> /\ nset = <<>>
    /\ lastop = "" /\ operand = <<>> /\ nops = 0 /\ result = <<>>
    /\ imported = {} /\ invoked = {}
    /\ members = <<>> /\ handles = <<>> /\ opened = <<>> /\ closed = <<>>
    /\ width = 0 /\ out = <<>> /\ err = <<>>
    /\ ret = -1 /\ exn = ""
    /\ callargs = <<>>

----------------------------------------------------------------------------
(* FakeClass used directly: calling a FakeClass, and its fake_new *)

ArgValues == {NoneV, StrV(<<65>>), FakeClass("m", "C")}

RECURSIVE SeqsUpTo(_, _)
SeqsUpTo(S, n) ==
    IF n = 0 THEN {<<>>}
    ELSE LET shorter == SeqsUpTo(S, n - 1)
         IN  shorter \cup {Append(q, x) : q \in shorter, x \in S}

Called(op, o) ==
    /\ pc = "ctor"
    /\ pc' = "exit"
    /\ lastop' = op
    /\ objs' = Append(objs, o)
    /\ nset' = Append(nset, 0)
    /\ UNCHANGED <<maxsize, stack, operand, nops, result, imported, invoked, members, handles,
                   opened, closed, ret, exn>>
    /\ UNCHANGED <<fixedVars, ioVars>>

ctor_call ==
    \E module \in Modules, name \in Names :
        Called("__call__", FakeClass_call(FakeClass(module, name), callargs))

ctor_new ==
    \E module \in Modules, name \in Names :
        Called("fake_new", fake_new(FakeClass(module, name), callargs))

Ctor == ctor_call \/ ctor_new

InitCtor ==
    /\ entry = "ctor"
    /\ argv = <<>> /\ sink = FALSE /\ hook = FALSE /\ catch = FALSE
    /\ maxsize = 0
    /\ pc = "ctor"
    /\ stack = <<>> /\ objs = <<>> /\ nset = <<>>
    /\ lastop = "" /\ operand = <<>> /\ nops = 0 /\ result = <<>>
    /\ imported = {} /\ invoked = {}
    /\ members = <<>> /\ handles = <<>> /\ opened = <<>> /\ closed = <<>>
    /\ width = 0 /\ out = <<>> /\ err = <<>>
    /\ ret = -1 /\ exn = ""
    /\ callargs \in SeqsUpTo(ArgValues, MaxArgs)

Load ==
    \/ load_none \/ load_binunicode
    \/ load_empty_tuple \/ load_tuple1
    \/ load_global \/ load_reduce \/ load_newobj
    \/ load_build \/ load_stop \/ load_bad

InitLoad ==
    /\ entry = "load"
    /\ argv = <<>> /\ sink = FALSE /\ hook = FALSE
    /\ catch \in BOOLEAN
    /\ maxsize = 0
    /\ pc = "load"
    /\ stack = <<>> /\ objs = <<>> /\ nset = <<>>
    /\ lastop = "" /\ operand = <<>> /\ nops = 0 /\ result = <<>>
    /\ imported = {} /\ invoked = {}
    /\ members = <<>> /\ handles = <<>> /\ opened = <<>> /\ closed = <<>>
    /\ width = 0 /\ out = <<>> /\ err = <<>>
    /\ ret = -1 /\ exn = ""
    /\ callargs = <<>>

Init == InitLoad \/ InitMain \/ InitCtor
Next == Load \/ Main \/ Ctor
Spec == Init /\ [][Next]_vars

----------------------------------------------------------------------------
(* Properties *)

InMain == entry \in {"cli", "prog"}
zfname == Split(argv[2])[1]
mname == Split(argv[2])[2]
\* main was given one locator of the form archive@member-spec
ArchiveLocator == InMain /\ Len(argv) = 2 /\ Contains(argv[2], "@")
\* ... and the archive was opened
ArchiveOpened == ArchiveLocator /\ opened # <<>> /\ opened[1].kind = "zip"
MemberHandles == {k \in DOMAIN opened : opened[k].kind = "member"}

RECURSIVE Sub(_)
\* the values a value holds: tuple items, and a FakeObject's args and state
Sub(v) ==
    {v} \cup
    (IF v.t = "tuple" THEN UNION {Sub(v.xs[i]) : i \in DOMAIN v.xs}
     ELSE IF v.t = "obj" THEN
         Sub(objs[v.r].state) \cup
         UNION {Sub(objs[v.r].args[i]) : i \in DOMAIN objs[v.r].args}
     ELSE {})

RECURSIVE Placeholder(_)
\* v is no real class and holds none
Placeholder(v) ==
    /\ v.t # "real"
    /\ v.t = "tuple" => \A i \in DOMAIN v.xs : Placeholder(v.xs[i])

\* every value the interpreter holds is one
AllPlaceholders ==
    /\ \A i \in DOMAIN stack : Placeholder(stack[i])
    /\ \A i \in DOMAIN result : Placeholder(result[i])
    /\ \A i \in DOMAIN objs :
           /\ Placeholder(objs[i].state)
           /\ \A k \in DOMAIN objs[i].args : Placeholder(objs[i].args[k])

\* a FakeObject with non-empty args and a state that is not None
Both(o) == o.args # <<>> /\ o.state # NoneV
HasBoth(v) == \E x \in Sub(v) : x.t = "obj" /\ Both(objs[x.r])

\* text of the form module.name(args...)(state=
CombinedText(text) ==
    \E k \in 3 .. Len(text) :
        text[k] = "(state=" /\ text[k - 1] = ")" /\ text[k - 2] # "("

\* C1: every class reference the stream resolves is a FakeClass and every call
\* of one only builds a FakeObject: no real class or function named in the
\* stream is ever imported, held or invoked.
C1_OnlyPlaceholders ==
    /\ imported = {}
    /\ invoked = {}
    /\ AllPlaceholders
    /\ lastop = "GLOBAL" /\ exn = "" => Top.t = "class"
    /\ lastop \in {"REDUCE", "NEWOBJ"} /\ exn = "" =>
           Top = ObjV(Len(objs)) /\ objs[Len(objs)].state = NoneV

C1_Witness ==
    /\ lastop = "REDUCE" /\ exn = ""
    /\ objs[Len(objs)].module = "m" /\ objs[Len(objs)].name = "C"
    /\ objs[Len(objs)].args # <<>>

\* the byte strings of the model no UTF-8 decoding accepts, surrogates or not
InvalidUtf8 == {<<255>>, <<237, 160>>}

\* C2: load_binunicode on a payload that is not UTF-8 even with surrogatepass:
\* without catch_invalid_utf8 the error propagates and nothing is pushed; with
\* it a FakeObject("builtin", "UnicodeDecodeError", (message,)) is pushed and
\* the load loop goes on.
C2_InvalidUtf8 ==
    [][ lastop' = "BINUNICODE" /\ nops' = nops + 1 /\ operand' \in InvalidUtf8 =>
          IF catch
          THEN /\ exn' = "" /\ pc' = "load"
               /\ objs' = Append(objs, [module |-> "builtin",
                                        name |-> "UnicodeDecodeError",
                                        args |-> <<StrV(<<operand'[1], 0,
                                                   Len(operand') - 1,
                                                   IF operand'[1] = 255
                                                   THEN InvalidStart
                                                   ELSE UnexpectedEnd>>)>>,
                                        state |-> NoneV])
               /\ stack' = Append(stack, ObjV(Len(objs')))
          ELSE /\ exn' = "UnicodeDecodeError" /\ pc' = "exit"
               /\ stack' = stack /\ objs' = objs /\ result' = <<>>
               /\ ret' # 0 ]_vars

\* the load with catch_invalid_utf8 reached STOP and returned the sentinel
C2_Witness ==
    /\ catch /\ pc = "exit" /\ exn = "" /\ lastop = "STOP"
    /\ result # <<>> /\ result[1].t = "obj"
    /\ objs[result[1].r].name = "UnicodeDecodeError"

\* C3 as stated: once __setstate__ has set a FakeObject's state, no later
\* opcode changes it.
C3_SetOnce ==
    [][ \A i \in DOMAIN objs :
            nset[i] >= 1 => objs'[i].state = objs[i].state ]_vars

\* C3 amended: a FakeObject's state changes only in BUILD's __setstate__
\* callback, which stores the popped value whatever the state was before
\* (last write wins).
C3_LastWriteWins ==
    [][ \A i \in DOMAIN objs :
            IF /\ lastop' = "BUILD" /\ nops' = nops + 1 /\ exn' = ""
               /\ Len(stack) >= 2 /\ stack[Len(stack) - 1] = ObjV(i)
            THEN objs'[i].state = stack[Len(stack)] /\ nset'[i] = nset[i] + 1
            ELSE objs'[i] = objs[i] /\ nset'[i] = nset[i] ]_vars

C3_Witness ==
    \E i \in DOMAIN objs : nset[i] >= 2 /\ objs[i].state # NoneV

C5_MetacharMeansPattern ==
    ArchiveOpened /\ pc # "start" =>
        IF Contains(mname, "*") \/ Contains(mname, "?")
        THEN /\ exn # "KeyError"
             /\ (\E i \in DOMAIN members : fnmatch(members[i], mname)) =>
                    \E k \in MemberHandles : fnmatch(opened[k].name, mname)
        ELSE \A k \in MemberHandles : opened[k].name = mname

\* C6: with len(argv) != 2 main writes the usage text to stderr and returns 2
\* when no output stream was given, and raises without writing it when one
\* was; nothing is opened, interpreted or written to the output either way.
C6_UsageError ==
    InMain /\ Len(argv) # 2 /\ pc # "start" =>
        /\ pc = "exit"
        /\ IF sink
           THEN exn = "Pass argv of length 2." /\ err = <<>> /\ ret = -1
           ELSE exn = "" /\ err = Usage /\ ret = 2
        /\ opened = <<>> /\ nops = 0 /\ result = <<>> /\ out = <<>>

C6_Witness ==
    InMain /\ Len(argv) = 3 /\ pc = "exit" /\ ~sink /\ ret = 2 /\ err = Usage

\* C7 as stated: however the dump was started, rendering a value that holds
\* a FakeObject with args and a state fails, and writes no args+state text.
C7_AlwaysFails ==
    InMain /\ pc = "exit" /\ result # <<>> /\ HasBoth(result[1]) =>
        exn = "Need to implement" /\ ~CombinedText(out)

\* C7 amended: pp_format raises for a FakeObject with args and a state and
\* writes nothing of it, but pprint calls it only when it is registered (the
\* module run as a script) and the object's repr does not fit the line;
\* otherwise the object is written through __repr__, as
\* module.name(args)(state=...), and the dump succeeds.
C7_FailsWhenHookedAndWide ==
    InMain /\ pc = "exit" /\ result # <<>> =>
        /\ exn = "Need to implement" =>
               hook /\ width >= 1 /\ HasBoth(result[1]) /\ ret # 0
        /\ (hook /\ width >= 1 /\ result[1].t = "obj" /\ Both(objs[result[1].r])) =>
               exn = "Need to implement" /\ out = <<>>
        /\ (~hook \/ width = 0) =>
               /\ exn = "" /\ ret = 0
               /\ HasBoth(result[1]) => CombinedText(out)

C7_Witness ==
    /\ InMain /\ pc = "exit" /\ hook /\ width >= 1
    /\ result # <<>> /\ result[1].t = "obj" /\ Both(objs[result[1].r])
    /\ exn = "Need to implement"

\* C8: when main has returned or raised, every handle it opened has been
\* released, a member before the archive it lies in.
C8_HandlesReleased ==
    /\ InMain /\ pc = "exit" =>
           /\ handles = <<>>
           /\ Len(closed) = Len(opened)
           /\ \A i \in DOMAIN opened : closed[i] = opened[Len(opened) + 1 - i]
    /\ InMain /\ pc \in {"load", "loaded"} => handles = opened /\ closed = <<>>

C8_Witness ==
    /\ InMain /\ pc = "exit" /\ exn = "TypeError" /\ Len(opened) = 2
    /\ closed = <<opened[2], opened[1]>> /\ closed[1].kind = "member"

\* C9: nothing is written to the output before load() has returned; when the
\* locator cannot be resolved or the interpretation fails, the output is
\* empty, the error has left main and main has not returned 0.
C9_NoOutputBeforeStop ==
    /\ result = <<>> => out = <<>>
    /\ pc \in {"load", "loaded"} => out = <<>>
    /\ InMain /\ Len(argv) = 2 /\ pc = "exit" /\ result = <<>> =>
           exn # "" /\ ret # 0 /\ out = <<>>

C9_Witness ==
    /\ InMain /\ pc = "exit" /\ exn = "EOFError" /\ nops >= 2
    /\ out = <<>> /\ ret = -1

\* C10: fake_new builds a FakeObject of the class's module and name whose args
\* are the arguments without the first one (none for no argument), as NEWOBJ
\* relies on when it passes the class first; __call__ keeps all arguments.
C10_NewDropsFirst ==
    [][ /\ lastop' = "fake_new" =>
            /\ Len(objs'[1].args) = (IF callargs = <<>> THEN 0 ELSE Len(callargs) - 1)
            /\ \A i \in DOMAIN objs'[1].args : objs'[1].args[i] = callargs[i + 1]
            /\ objs'[1].module \in Modules /\ objs'[1].name \in Names
        /\ lastop' = "__call__" =>
            /\ objs'[1].args = callargs
            /\ objs'[1].module \in Modules /\ objs'[1].name \in Names
        /\ lastop' \in {"NEWOBJ", "REDUCE"} /\ nops' = nops + 1 /\ exn' = "" =>
            objs'[Len(objs')] =
                [module |-> stack[Len(stack) - 1].m,
                 name |-> stack[Len(stack) - 1].n,
                 args |-> Unpack(stack[Len(stack)]),
                 state |-> NoneV] ]_vars

C10_Witness ==
    /\ lastop = "NEWOBJ" /\ exn = ""
    /\ objs[Len(objs)].args # <<>>
    /\ \A i \in DOMAIN objs[Len(objs)].args : objs[Len(objs)].args[i].t # "class"

====
